---- MODULE Spec2Model ----
(***************************************************************************)
(* Simulation core of the snake game: the Snake entity (segments,          *)
(* direction buffering, timed discrete step, growth, collisions), the Food *)
(* spawner and the SnakeGame state machine that drives them per frame.     *)
(* Positions are three.js Vector3 values, modelled as <<x, y, z>> tuples   *)
(* of integers; distances are compared squared.                            *)
(***************************************************************************)
EXTENDS Integers, Sequences, FiniteSets, TLC

VARIABLES
    segments,        \* Snake.segments: positions, head first
    direction,       \* Snake.direction
    nextDirection,   \* Snake.nextDirection
    isGrowing,       \* Snake.isGrowing
    moveTimer,       \* Snake.moveTimer (ms)
    steps,           \* number of discrete steps taken in the exploration
    foodPos,         \* Food.position
    gameState,       \* SnakeGame.gameState
    score,           \* SnakeGame.score
    highScore,       \* SnakeGame.highScore
    finalScore,      \* number shown in finalScoreElement by gameOver()
    storage,         \* localStorage item 'snake-game-high-score' (characters) or null
    startScreen,     \* startScreenElement is displayed
    gameOverScreen,  \* gameOverElement is displayed
    frameLive,       \* the callback whose id is animationFrameId is still outstanding
    frameStale,      \* outstanding gameLoop callbacks with other ids
    attempts,        \* attempts of the Food.spawn call being followed step by step
    call             \* what the last handler did: name, argument, events, spawn

snakeVars == <<segments, direction, nextDirection, isGrowing, moveTimer, steps>>
gameVars  == <<foodPos, gameState, score, highScore, finalScore, storage,
               startScreen, gameOverScreen, frameLive, frameStale, attempts>>
vars      == <<segments, direction, nextDirection, isGrowing, moveTimer, steps,
               foodPos, gameState, score, highScore, finalScore, storage,
               startScreen, gameOverScreen, frameLive, frameStale, attempts, call>>

----------------------------------------------------------------------------
(* Bounds of the exploration *)

MaxSteps  == 4      \* discrete steps explored (Snake on its own)
MaxLen    == 5      \* grow() is not explored beyond this many segments
MaxTicks  == 3      \* discrete steps explored (whole game)
MaxFoods  == 3      \* food items eaten per game session
MaxRand   == 1      \* magnitude of the random draws explored
MaxStale  == 1      \* outstanding frame callbacks other than the latest
MaxText   == 3      \* characters of a stored text

(* Program constants *)

segmentSize        == 2
initialSnakeLength == 3
moveInterval       == 200
wallBoundary       == 10
foodValue          == 10
spawnBoundary      == 8
fallbackSpread     == 10
foodHeight         == 1
minSeparation      == 2
maxAttempts        == 100

UP       == "up"
DOWN     == "down"
LEFT     == "left"
RIGHT    == "right"
FORWARD  == "forward"
BACKWARD == "backward"

Direction == {UP, DOWN, LEFT, RIGHT, FORWARD, BACKWARD}

\* the directions InputManager.handleGameInput maps keys to
Planar == {LEFT, RIGHT, FORWARD, BACKWARD}

MENU      == "menu"
PLAYING   == "playing"
PAUSED    == "paused"
GAME_OVER == "game_over"

\* localStorage.getItem: null for a missing item, else its text
null == [present |-> FALSE, text |-> <<>>]
Item(text) == [present |-> TRUE, text |-> text]

\* a number that may be NaN
NaN == [nan |-> TRUE, value |-> 0]
Num(v) == [nan |-> FALSE, value |-> v]

(* elapsed times handed to Snake.update(), in ms *)
Deltas == {100, 200, 500}

(* elapsed times between two frames of the game loop, in ms *)
FrameDeltas == {100, 200}

----------------------------------------------------------------------------
(* Vector3 helpers *)

Sq(n) == n * n

Abs(n) == IF n < 0 THEN -n ELSE n

\* square of Vector3.distanceTo
Dist2(a, b) == Sq(a[1] - b[1]) + Sq(a[2] - b[2]) + Sq(a[3] - b[3])

\* unit vector of a direction (FORWARD is -z, as in Snake.move)
UnitVector(d) ==
    CASE d = RIGHT    -> <<1, 0, 0>>
      [] d = LEFT     -> <<-1, 0, 0>>
      [] d = UP       -> <<0, 1, 0>>
      [] d = DOWN     -> <<0, -1, 0>>
      [] d = FORWARD  -> <<0, 0, -1>>
      [] d = BACKWARD -> <<0, 0, 1>>

----------------------------------------------------------------------------
(* Snake *)

\* Snake.initialize: segment i at (-i * segmentSize, 0, 0)
initialize(length) == [i \in 1..length |-> <<-(i - 1) * segmentSize, 0, 0>>]

\* the opposites table of Snake.isOppositeDirection
opposites(d) ==
    CASE d = FORWARD  -> BACKWARD
      [] d = BACKWARD -> FORWARD
      [] d = LEFT     -> RIGHT
      [] d = RIGHT    -> LEFT
      [] d = UP       -> DOWN
      [] d = DOWN     -> UP

isOppositeDirection(newDir, currentDir) == opposites(newDir) = currentDir

\* InputManager.isOppositeDirection, on the direction read through the getter
inputIsOpposite(newDir, currentDir) == opposites(newDir) = currentDir

\* variant: UP and DOWN move the head along y
newHeadPosition_vertical(head, dir) ==
    CASE dir = RIGHT    -> <<head[1] + segmentSize, head[2], head[3]>>
      [] dir = LEFT     -> <<head[1] - segmentSize, head[2], head[3]>>
      [] dir = FORWARD  -> <<head[1], head[2], head[3] - segmentSize>>
      [] dir = BACKWARD -> <<head[1], head[2], head[3] + segmentSize>>
      [] dir = UP       -> <<head[1], head[2] + segmentSize, head[3]>>
      [] dir = DOWN     -> <<head[1], head[2] - segmentSize, head[3]>>

\* the switch of Snake.move: only the four planar directions have a case
newHeadPosition(head, dir) ==
    CASE dir = RIGHT    -> <<head[1] + segmentSize, head[2], head[3]>>
      [] dir = LEFT     -> <<head[1] - segmentSize, head[2], head[3]>>
      [] dir = FORWARD  -> <<head[1], head[2], head[3] - segmentSize>>
      [] dir = BACKWARD -> <<head[1], head[2], head[3] + segmentSize>>
      [] OTHER          -> head

\* head move and body move of Snake.move, from the previous-positions snapshot
shifted(previousPositions, dir) ==
    [i \in 1..Len(previousPositions) |->
        IF i = 1 THEN newHeadPosition(previousPositions[1], dir)
                 ELSE previousPositions[i - 1]]

\* variant: the new segment is put on the tail's position after the move
grown_onNewTail(previousPositions, segs, growing) ==
    IF growing THEN Append(segs, segs[Len(segs)])
               ELSE segs

\* growth of Snake.move: the new segment takes the former tail position
grown(previousPositions, segs, growing) ==
    IF growing THEN Append(segs, previousPositions[Len(previousPositions)])
               ELSE segs

\* variant: the step ends before growth is applied
moved_withoutGrowth(segs, dir, growing) == shifted(segs, dir)

\* segments after one Snake.move
moved(segs, dir, growing) == grown(segs, shifted(segs, dir), growing)

\* variant: the scan stops one short of the last segment
checkSelfCollision_skipTail(segs) ==
    \E i \in 2..(Len(segs) - 1) : 4 * Dist2(segs[1], segs[i]) < Sq(segmentSize)

\* Snake.checkSelfCollision: distanceTo(...) < segmentSize / 2
checkSelfCollision(segs) ==
    \E i \in 2..Len(segs) : 4 * Dist2(segs[1], segs[i]) < Sq(segmentSize)

\* variant: the boundary coordinate itself counts as the wall
checkWallCollision_inclusive(segs) ==
    \/ Abs(segs[1][1]) >= wallBoundary
    \/ Abs(segs[1][3]) >= wallBoundary

\* Snake.checkWallCollision
checkWallCollision(segs) ==
    \/ Abs(segs[1][1]) > wallBoundary
    \/ Abs(segs[1][3]) > wallBoundary

\* variant: only the body is tested
collides_selfOnly(segs) == checkSelfCollision(segs)

\* the condition under which Snake.move emits 'collision'
collides(segs) == checkSelfCollision(segs) \/ checkWallCollision(segs)

\* variant: the distance is compared with the square root of 3
checkFoodCollision_tight(segs, foodPosition) ==
    Dist2(segs[1], foodPosition) < Sq(segmentSize) - 1

\* variant: the threshold reaches the neighbouring cells
checkFoodCollision_wide(segs, foodPosition) ==
    Dist2(segs[1], foodPosition) <= Sq(segmentSize) + 1

\* variant: the tolerance of the self-collision test is used
checkFoodCollision_half(segs, foodPosition) ==
    4 * Dist2(segs[1], foodPosition) < Sq(segmentSize)

\* Snake.checkFoodCollision: distanceTo(foodPosition) < segmentSize
checkFoodCollision(segs, foodPosition) ==
    Dist2(segs[1], foodPosition) < Sq(segmentSize)

\* variant: the accumulated time has to exceed moveInterval
fires_strict(timer, delta) == timer + delta > moveInterval

\* Snake.update fires move() when the accumulated time reaches moveInterval
fires(timer, delta) == timer + delta >= moveInterval

\* variant: the reversal test looks at the pending direction
accepted_againstPending(d, cur, next) == IF ~isOppositeDirection(d, next) THEN d ELSE next

\* variant: no reversal test
accepted_unchecked(d, cur, next) == d

\* nextDirection after Snake.setDirection(d)
accepted(d, cur, next) == IF ~isOppositeDirection(d, cur) THEN d ELSE next

NoCall == [op |-> "init", arg |-> "", emitted |-> <<>>, spawned |-> FALSE,
           occupied |-> <<>>, validPosition |-> FALSE, deltaTime |-> 0, saved |-> FALSE]

CallOf(op, arg, emitted) ==
    [op |-> op, arg |-> arg, emitted |-> emitted, spawned |-> FALSE,
     occupied |-> <<>>, validPosition |-> FALSE, deltaTime |-> 0, saved |-> FALSE]

----------------------------------------------------------------------------
(* The Snake entity on its own, driven through its public methods *)

SnakeInit ==
    /\ segments = initialize(initialSnakeLength)
    /\ direction = RIGHT
    /\ nextDirection = RIGHT
    /\ isGrowing = FALSE
    /\ moveTimer = 0
    /\ steps = 0
    /\ foodPos = <<0, 0, 0>>
    /\ gameState = MENU
    /\ score = 0
    /\ highScore = 0
    /\ finalScore = 0
    /\ storage = null
    /\ startScreen = TRUE
    /\ gameOverScreen = FALSE
    /\ frameLive = FALSE
    /\ frameStale = 0
    /\ attempts = 0
    /\ call = NoCall

\* Snake.setDirection(d)
SnakeSetDirection(d) ==
    /\ nextDirection' = accepted(d, direction, nextDirection)
    /\ call' = CallOf("setDirection", d, <<>>)
    /\ UNCHANGED <<segments, direction, isGrowing, moveTimer, steps>>
    /\ UNCHANGED gameVars

\* Snake.grow()
SnakeGrow ==
    /\ Len(segments) + (IF isGrowing THEN 1 ELSE 0) < MaxLen
    /\ isGrowing' = TRUE
    /\ call' = CallOf("grow", "", <<>>)
    /\ UNCHANGED <<segments, direction, nextDirection, moveTimer, steps>>
    /\ UNCHANGED gameVars

\* Snake.update(delta), with the Snake.move() it may fire
SnakeUpdate(delta) ==
    /\ IF fires(moveTimer, delta)
       THEN /\ steps < MaxSteps
            /\ direction' = nextDirection
            /\ segments' = moved(segments, nextDirection, isGrowing)
            /\ isGrowing' = FALSE
            /\ moveTimer' = 0
            /\ steps' = steps + 1
            /\ call' = [CallOf("update", "move",
                           IF collides(moved(segments, nextDirection, isGrowing))
                           THEN <<"collision">> ELSE <<>>)
                        EXCEPT !.deltaTime = delta]
            /\ UNCHANGED nextDirection
       ELSE /\ moveTimer' = moveTimer + delta
            /\ call' = [CallOf("update", "", <<>>) EXCEPT !.deltaTime = delta]
            /\ UNCHANGED <<segments, direction, nextDirection, isGrowing, steps>>
    /\ UNCHANGED gameVars

\* Snake.reset()
SnakeReset ==
    /\ segments' = initialize(3)
    /\ direction' = RIGHT
    /\ nextDirection' = RIGHT
    /\ isGrowing' = FALSE
    /\ moveTimer' = 0
    /\ call' = CallOf("reset", "", <<>>)
    /\ UNCHANGED steps
    /\ UNCHANGED gameVars

SnakeNext ==
    \/ \E d \in Direction : SnakeSetDirection(d)
    \/ SnakeGrow
    \/ \E delta \in Deltas : SnakeUpdate(delta)
    \/ SnakeReset

SpecSnake == SnakeInit /\ [][SnakeNext]_vars

\* a straight snake of the initial length heading d, its head at cell
\* (x, z) = head and its body trailing behind it
straight(head, d) ==
    [i \in 1..initialSnakeLength |->
        <<head[1] - (i - 1) * segmentSize * UnitVector(d)[1], 0,
          head[2] - (i - 1) * segmentSize * UnitVector(d)[3]>>]

\* the headings explored near a wall: towards +x and towards -z
WallHeadings == {RIGHT, FORWARD}

\* the snake has run up to one cell short of the boundary coordinate of the
\* wall it is heading for
WallInit ==
    /\ \E d \in WallHeadings :
          /\ segments = straight(<<(wallBoundary - segmentSize) * UnitVector(d)[1],
                                  (wallBoundary - segmentSize) * UnitVector(d)[3]>>, d)
          /\ direction = d
          /\ nextDirection = d
    /\ isGrowing = FALSE
    /\ moveTimer = 0
    /\ steps = 0
    /\ foodPos = <<0, 0, 0>>
    /\ gameState = MENU
    /\ score = 0
    /\ highScore = 0
    /\ finalScore = 0
    /\ storage = null
    /\ startScreen = TRUE
    /\ gameOverScreen = FALSE
    /\ frameLive = FALSE
    /\ frameStale = 0
    /\ attempts = 0
    /\ call = NoCall

\* the Snake entity near a wall, driven through its public methods
SpecWall == WallInit /\ [][SnakeNext]_vars

----------------------------------------------------------------------------
(* Food *)

\* MathUtils.randFloatSpread(range): a value in [-range/2, range/2]; the
\* integer draws of magnitude up to MaxRand are explored
randFloatSpread(range) == {x \in -MaxRand..MaxRand : 2 * Abs(x) <= range}

\* Math.round(v / 2) * 2 for an integer v (Math.round rounds halves up)
snap(v) == ((v + 1) \div 2) * 2

\* variant: the separation of Food.isAt is used
validPosition_isAt(occupiedPositions, newPosition) ==
    ~\E i \in DOMAIN occupiedPositions :
        Dist2(occupiedPositions[i], newPosition) < 1

\* the test of Food.spawn: no occupied position closer than the separation
validPosition(occupiedPositions, newPosition) ==
    ~\E i \in DOMAIN occupiedPositions :
        Dist2(occupiedPositions[i], newPosition) < Sq(minSeparation)

\* every grid cell a draw of Food.spawn can snap to
candidateCells ==
    {<<gx, foodHeight, gz>> :
        gx \in {c \in -spawnBoundary..spawnBoundary : c % 2 = 0},
        gz \in {c \in -spawnBoundary..spawnBoundary : c % 2 = 0}}

\* every integer value MathUtils.randFloatSpread(range) can return
randFloatSpreadInt(range) == -(range \div 2)..(range \div 2)

\* Food.spawn(occupiedPositions) with the random values of the candidates
\* and of the fallback taken from candidateDraws and fallbackDraws: the
\* loop ends at the first valid candidate, which may be any valid one; the
\* fallback needs every attempt to fail, which the draws allow exactly when
\* some candidate cell is not valid
spawnOver(occupiedPositions, candidateDraws, fallbackDraws) ==
    {[position |-> p, validPosition |-> TRUE] :
        p \in {q \in {<<snap(x), foodHeight, snap(z)>> :
                        x \in candidateDraws,
                        z \in candidateDraws} :
                  validPosition(occupiedPositions, q)}}
    \cup
    (IF \E cell \in candidateCells : ~validPosition(occupiedPositions, cell)
     THEN {[position |-> <<x, foodHeight, z>>, validPosition |-> FALSE] :
              x \in fallbackDraws,
              z \in fallbackDraws}
     ELSE {})

\* Food.spawn(occupiedPositions) as the game's handlers use it, with the
\* draws of bounded magnitude
spawn(occupiedPositions) ==
    spawnOver(occupiedPositions, randFloatSpread(spawnBoundary * 2),
              randFloatSpread(fallbackSpread))

\* a snake that fills every cell Food.spawn can draw: row after row of the
\* spawn area, turning at the row ends, head in the corner (-8, -8)
fullBoard ==
    [i \in 1..Sq(spawnBoundary + 1) |->
        LET row == (i - 1) \div (spawnBoundary + 1)
            col == (i - 1) % (spawnBoundary + 1)
        IN  <<(IF row % 2 = 0 THEN col ELSE spawnBoundary - col) * segmentSize
                  - spawnBoundary,
              0,
              row * segmentSize - spawnBoundary>>]

\* occupied positions Food.spawn is called with: none (constructor), the
\* reset snake, and a snake on every candidate cell
Boards == {<<>>, initialize(initialSnakeLength), fullBoard}

\* variant: the loop has no attempt bound
keepsTrying_unbounded(valid, n) == ~valid

\* the condition of the while loop of Food.spawn
keepsTrying(valid, n) == ~valid /\ n < maxAttempts

\* Food.spawn(occupiedPositions) is entered
SpawnInit ==
    /\ segments = initialize(initialSnakeLength)
    /\ direction = RIGHT
    /\ nextDirection = RIGHT
    /\ isGrowing = FALSE
    /\ moveTimer = 0
    /\ steps = 0
    /\ foodPos = <<0, 0, 0>>
    /\ gameState = MENU
    /\ score = 0
    /\ highScore = 0
    /\ finalScore = 0
    /\ storage = null
    /\ startScreen = TRUE
    /\ gameOverScreen = FALSE
    /\ frameLive = FALSE
    /\ frameStale = 0
    /\ attempts = 0
    /\ \E occ \in Boards :
          call = [CallOf("spawn", "", <<>>) EXCEPT !.occupied = occ]

\* one pass of the while loop: draw, snap, test, keep the position if valid
SpawnAttempt ==
    /\ ~call.spawned
    /\ keepsTrying(call.validPosition, attempts)
    /\ \E x \in randFloatSpreadInt(spawnBoundary * 2),
          z \in randFloatSpreadInt(spawnBoundary * 2) :
          LET newPosition == <<snap(x), foodHeight, snap(z)>>
              valid == validPosition(call.occupied, newPosition)
          IN  /\ call' = [call EXCEPT !.validPosition = valid]
              /\ foodPos' = IF valid THEN newPosition ELSE foodPos
    /\ attempts' = attempts + 1
    /\ UNCHANGED snakeVars
    /\ UNCHANGED <<gameState, score, highScore, finalScore, storage,
                   startScreen, gameOverScreen, frameLive, frameStale>>

\* the loop has ended without a valid position: place the food at random
SpawnFallback ==
    /\ ~call.spawned
    /\ ~keepsTrying(call.validPosition, attempts)
    /\ ~call.validPosition
    /\ \E x \in randFloatSpreadInt(fallbackSpread),
          z \in randFloatSpreadInt(fallbackSpread) :
          foodPos' = <<x, foodHeight, z>>
    /\ call' = [call EXCEPT !.spawned = TRUE]
    /\ UNCHANGED snakeVars
    /\ UNCHANGED <<gameState, score, highScore, finalScore, storage,
                   startScreen, gameOverScreen, frameLive, frameStale, attempts>>

\* the loop has ended with a valid position: spawn returns
SpawnReturn ==
    /\ ~call.spawned
    /\ ~keepsTrying(call.validPosition, attempts)
    /\ call.validPosition
    /\ call' = [call EXCEPT !.spawned = TRUE]
    /\ UNCHANGED snakeVars
    /\ UNCHANGED <<foodPos, gameState, score, highScore, finalScore, storage,
                   startScreen, gameOverScreen, frameLive, frameStale, attempts>>

SpawnNext == SpawnAttempt \/ SpawnFallback \/ SpawnReturn

\* a call of Food.spawn that is not suspended: the code runs to its end
SpecSpawn == SpawnInit /\ [][SpawnNext]_vars /\ WF_vars(SpawnNext)

----------------------------------------------------------------------------
(* localStorage text *)

Digits == <<"0", "1", "2", "3", "4", "5", "6", "7", "8", "9">>

DigitValue(c) == CHOOSE d \in 0..9 : Digits[d + 1] = c

IsDigit(c) == \E d \in 0..9 : Digits[d + 1] = c

RECURSIVE toStringNat(_)
toStringNat(n) ==
    IF n < 10 THEN <<Digits[n + 1]>>
              ELSE toStringNat(n \div 10) \o <<Digits[(n % 10) + 1]>>

\* Number.prototype.toString of an integer
toString(n) == IF n < 0 THEN <<"-">> \o toStringNat(-n) ELSE toStringNat(n)

RECURSIVE digitsPrefix(_, _)
\* value of the longest run of digits at the front of str, or NaN without one
digitsPrefix(str, acc) ==
    IF str # <<>> /\ IsDigit(str[1])
    THEN digitsPrefix(Tail(str), Num(acc.value * 10 + DigitValue(str[1])))
    ELSE acc

RECURSIVE trimStart(_)
\* the text without its leading white space
trimStart(str) ==
    IF str # <<>> /\ str[1] = " " THEN trimStart(Tail(str)) ELSE str

\* variant: neither white space nor a sign is read
parseInt_unsigned(str) == digitsPrefix(str, NaN)

\* parseInt(str, 10): leading white space is skipped, one sign is read, then
\* the digits up to the first other character; NaN if there is no digit
parseInt(str) ==
    LET t == trimStart(str)
        signed == t # <<>> /\ t[1] \in {"-", "+"}
        v == digitsPrefix(IF signed THEN Tail(t) ELSE t, NaN)
    IN  IF v.nan THEN NaN
        ELSE IF signed /\ t[1] = "-" THEN Num(-v.value)
        ELSE v

\* SnakeGame.loadHighScore: the high score after construction
loadHighScore(saved) ==
    IF ~saved.present \/ saved.text = <<>>
    THEN 0
    ELSE LET v == parseInt(saved.text) IN IF v.nan \/ v.value = 0 THEN 0 ELSE v.value

\* stored texts the game is constructed with
InitialStorage == {null}

----------------------------------------------------------------------------
(* SnakeGame: the handlers are composed from functions on the record w of  *)
(* the fields they read and write                                          *)

World ==
    [segments |-> segments, direction |-> direction, nextDirection |-> nextDirection,
     isGrowing |-> isGrowing, moveTimer |-> moveTimer, steps |-> steps,
     foodPos |-> foodPos, gameState |-> gameState, score |-> score,
     highScore |-> highScore, finalScore |-> finalScore, storage |-> storage,
     startScreen |-> startScreen, gameOverScreen |-> gameOverScreen,
     frameLive |-> frameLive, frameStale |-> frameStale,
     emitted |-> <<>>, spawned |-> FALSE, occupied |-> <<>>, validPosition |-> FALSE,
     saved |-> FALSE]

\* variant: the start screen's state is entered, as showStartScreen does
gameOver_showStartScreen(w) ==
    [w EXCEPT !.gameState = MENU,
              !.frameLive = FALSE,
              !.highScore = IF w.score > w.highScore THEN w.score ELSE @,
              !.storage = IF w.score > w.highScore THEN Item(toString(w.score)) ELSE @,
              !.saved = IF w.score > w.highScore THEN TRUE ELSE @,
              !.finalScore = w.score,
              !.gameOverScreen = TRUE]

\* variant: the game state is left as it is
gameOver_stillPlaying(w) ==
    [w EXCEPT !.frameLive = FALSE,
              !.highScore = IF w.score > w.highScore THEN w.score ELSE @,
              !.storage = IF w.score > w.highScore THEN Item(toString(w.score)) ELSE @,
              !.saved = IF w.score > w.highScore THEN TRUE ELSE @,
              !.finalScore = w.score,
              !.gameOverScreen = TRUE]

\* variant: a score equal to the high score is saved as well
gameOver_notStrict(w) ==
    [w EXCEPT !.gameState = GAME_OVER,
              !.frameLive = FALSE,
              !.highScore = IF w.score >= w.highScore THEN w.score ELSE @,
              !.storage = IF w.score >= w.highScore THEN Item(toString(w.score)) ELSE @,
              !.saved = IF w.score >= w.highScore THEN TRUE ELSE @,
              !.finalScore = w.score,
              !.gameOverScreen = TRUE]

\* SnakeGame.gameOver; saved tells that saveHighScore called localStorage.setItem
gameOver(w) ==
    [w EXCEPT !.gameState = GAME_OVER,
              !.frameLive = FALSE,
              !.highScore = IF w.score > w.highScore THEN w.score ELSE @,
              !.storage = IF w.score > w.highScore THEN Item(toString(w.score)) ELSE @,
              !.saved = IF w.score > w.highScore THEN TRUE ELSE @,
              !.finalScore = w.score,
              !.gameOverScreen = TRUE]

\* variant: the pending direction steers the head but is not committed
move_noCommit(w) ==
    LET segs == moved(w.segments, w.nextDirection, w.isGrowing)
        after == [w EXCEPT !.segments = segs,
                           !.isGrowing = FALSE,
                           !.steps = @ + 1]
    IN  IF collides(segs)
        THEN gameOver([after EXCEPT !.emitted = Append(@, "collision")])
        ELSE after

\* Snake.move, with the 'collision' listener of SnakeGame running inside emit
move(w) ==
    LET segs == moved(w.segments, w.nextDirection, w.isGrowing)
        after == [w EXCEPT !.direction = w.nextDirection,
                           !.segments = segs,
                           !.isGrowing = FALSE,
                           !.steps = @ + 1]
    IN  IF collides(segs)
        THEN gameOver([after EXCEPT !.emitted = Append(@, "collision")])
        ELSE after

\* Snake.update
snakeUpdate(w, delta) ==
    IF fires(w.moveTimer, delta)
    THEN [move(w) EXCEPT !.moveTimer = 0]
    ELSE [w EXCEPT !.moveTimer = @ + delta]

\* variant: the left operand is read after collect() has run its listener
scoreAfterCollect_reread(old) ==
    LET listened == old + foodValue IN listened + foodValue

\* this.score += this.food.collect(): the left operand is read first, the
\* 'food_collected' listener then adds the points to the field, and the
\* assignment stores the value read first plus the returned points
scoreAfterCollect(old) ==
    LET listened == old + foodValue IN old + foodValue

\* Food.reset(occupiedPositions)
foodReset(w, occupiedPositions) ==
    {[w EXCEPT !.foodPos = o.position,
               !.spawned = TRUE,
               !.occupied = occupiedPositions,
               !.validPosition = o.validPosition] : o \in spawn(occupiedPositions)}

\* SnakeGame.update
update(w, delta) ==
    LET s == snakeUpdate(w, delta)
    IN  IF checkFoodCollision(s.segments, s.foodPos)
        THEN foodReset([s EXCEPT !.isGrowing = TRUE,
                                 !.score = scoreAfterCollect(s.score),
                                 !.emitted = Append(@, "food_collected")],
                       s.segments)
        ELSE {s}

\* requestAnimationFrame(this.gameLoop) assigned to animationFrameId
requestFrame(w) ==
    [w EXCEPT !.frameStale = IF w.frameLive THEN @ + 1 ELSE @,
              !.frameLive = TRUE]

\* SnakeGame.gameLoop
gameLoop(w, delta) ==
    IF w.gameState # PLAYING
    THEN {w}
    ELSE {requestFrame(u) : u \in update(w, delta)}

\* SnakeGame.startGameLoop: lastTime is read back at once, so deltaTime is 0
startGameLoop(w) == gameLoop(w, 0)

\* SnakeGame.startGame, with resetGame and Snake.reset
startGame(w) ==
    LET fresh == [w EXCEPT !.gameState = PLAYING,
                           !.startScreen = FALSE,
                           !.gameOverScreen = FALSE,
                           !.score = 0,
                           !.segments = initialize(3),
                           !.direction = RIGHT,
                           !.nextDirection = RIGHT,
                           !.isGrowing = FALSE,
                           !.moveTimer = 0]
    IN  UNION {startGameLoop(f) : f \in foodReset(fresh, fresh.segments)}

\* SnakeGame.pauseGame
pauseGame(w) == [w EXCEPT !.gameState = PAUSED, !.frameLive = FALSE]

\* SnakeGame.resumeGame
resumeGame(w) == startGameLoop([w EXCEPT !.gameState = PLAYING])

\* the exploration stays within its bounds
Within(w) ==
    /\ w.steps <= MaxTicks
    /\ w.score <= MaxFoods * foodValue
    /\ w.frameStale <= MaxStale

\* the handler ends in w
Becomes(w) ==
    /\ Within(w)
    /\ segments' = w.segments
    /\ direction' = w.direction
    /\ nextDirection' = w.nextDirection
    /\ isGrowing' = w.isGrowing
    /\ moveTimer' = w.moveTimer
    /\ steps' = w.steps
    /\ foodPos' = w.foodPos
    /\ gameState' = w.gameState
    /\ score' = w.score
    /\ highScore' = w.highScore
    /\ finalScore' = w.finalScore
    /\ storage' = w.storage
    /\ startScreen' = w.startScreen
    /\ gameOverScreen' = w.gameOverScreen
    /\ frameLive' = w.frameLive
    /\ frameStale' = w.frameStale
    /\ attempts' = attempts
    /\ call' = [op |-> "handler", arg |-> "", emitted |-> w.emitted, spawned |-> w.spawned,
                occupied |-> w.occupied, validPosition |-> w.validPosition,
                deltaTime |-> 0, saved |-> w.saved]

\* new SnakeGame(canvas): entities constructed, high score loaded, menu shown
Init ==
    /\ segments = initialize(initialSnakeLength)
    /\ direction = RIGHT
    /\ nextDirection = RIGHT
    /\ isGrowing = FALSE
    /\ moveTimer = 0
    /\ steps = 0
    /\ \E o \in spawn(<<>>) : foodPos = o.position
    /\ gameState = MENU
    /\ score = 0
    /\ storage \in InitialStorage
    /\ highScore = loadHighScore(storage)
    /\ finalScore = 0
    /\ startScreen = TRUE
    /\ gameOverScreen = FALSE
    /\ frameLive = FALSE
    /\ frameStale = 0
    /\ attempts = 0
    /\ call = NoCall

\* click on startButton (inside the start screen)
StartClick ==
    /\ startScreen
    /\ \E w \in startGame(World) : Becomes(w)

\* click on restartButton (inside the game-over screen): restartGame
RestartClick ==
    /\ gameOverScreen
    /\ \E w \in startGame([World EXCEPT !.gameOverScreen = FALSE]) : Becomes(w)

\* InputManager.handleGameInput for a direction key, and the
\* 'direction_change' listener of SnakeGame
DirectionKey(d) ==
    /\ d \in Planar
    /\ Becomes(IF ~inputIsOpposite(d, direction) /\ gameState = PLAYING
               THEN [World EXCEPT !.nextDirection = accepted(d, direction, nextDirection)]
               ELSE World)

\* InputManager.handleGameInput for Space, and the 'pause' listener
PauseKey ==
    /\ gameState \in {MENU, PLAYING, PAUSED, GAME_OVER}
    /\ \E w \in (IF gameState = PLAYING THEN {pauseGame(World)}
                  ELSE IF gameState = PAUSED THEN resumeGame(World)
                  ELSE {World}) : Becomes(w)

\* the browser runs the outstanding callback that animationFrameId names
FrameLatest(delta) ==
    /\ frameLive
    /\ \E w \in gameLoop([World EXCEPT !.frameLive = FALSE], delta) : Becomes(w)

\* the browser runs an outstanding callback that animationFrameId no longer names
FrameStale(delta) ==
    /\ frameStale > 0
    /\ \E w \in gameLoop([World EXCEPT !.frameStale = @ - 1], delta) : Becomes(w)

Next ==
    \/ StartClick
    \/ RestartClick
    \/ \E d \in Planar : DirectionKey(d)
    \/ PauseKey
    \/ \E delta \in FrameDeltas : FrameLatest(delta)
    \/ \E delta \in FrameDeltas : FrameStale(delta)

Spec == Init /\ [][Next]_vars

\* stored texts of a game constructed after earlier sessions: no item yet,
\* or the high score that saveHighScore wrote
StoredScores == {null, Item(toString(2 * foodValue))}

\* new SnakeGame(canvas) on a browser profile that may hold a saved high score
StoredInit ==
    /\ segments = initialize(initialSnakeLength)
    /\ direction = RIGHT
    /\ nextDirection = RIGHT
    /\ isGrowing = FALSE
    /\ moveTimer = 0
    /\ steps = 0
    /\ \E o \in spawn(<<>>) : foodPos = o.position
    /\ gameState = MENU
    /\ score = 0
    /\ storage \in StoredScores
    /\ highScore = loadHighScore(storage)
    /\ finalScore = 0
    /\ startScreen = TRUE
    /\ gameOverScreen = FALSE
    /\ frameLive = FALSE
    /\ frameStale = 0
    /\ attempts = 0
    /\ call = NoCall

\* sessions played without pausing
SessionNext ==
    \/ StartClick
    \/ RestartClick
    \/ \E d \in Planar : DirectionKey(d)
    \/ \E delta \in FrameDeltas : FrameLatest(delta)
    \/ \E delta \in FrameDeltas : FrameStale(delta)

SpecStored == StoredInit /\ [][SessionNext]_vars

\* characters of the stored texts explored: digits, signs, white space,
\* a letter and a decimal point
StoredChars == {"0", "1", "7", "-", "+", " ", "a", "."}

RECURSIVE textsOfLength(_)
textsOfLength(n) ==
    IF n = 0 THEN {<<>>}
    ELSE {Append(t, c) : t \in textsOfLength(n - 1), c \in StoredChars}

\* what localStorage.getItem can return: null or a text
StoredTexts == {null} \cup {Item(t) : t \in UNION {textsOfLength(n) : n \in 0..MaxText}}

\* the constructor of SnakeGame is about to call loadHighScore(): the fields
\* hold their initialisers and the entities are constructed (the first food
\* at the centre cell, one of the positions its first spawn can give)
LoadInit ==
    /\ segments = initialize(initialSnakeLength)
    /\ direction = RIGHT
    /\ nextDirection = RIGHT
    /\ isGrowing = FALSE
    /\ moveTimer = 0
    /\ steps = 0
    /\ foodPos = <<0, foodHeight, 0>>
    /\ gameState = MENU
    /\ score = 0
    /\ storage \in StoredTexts
    /\ highScore = 0
    /\ finalScore = 0
    /\ startScreen = FALSE
    /\ gameOverScreen = FALSE
    /\ frameLive = FALSE
    /\ frameStale = 0
    /\ attempts = 0
    /\ call = NoCall

\* this.loadHighScore()
LoadHighScore ==
    /\ call.op = "init"
    /\ highScore' = loadHighScore(storage)
    /\ call' = CallOf("loadHighScore", "", <<>>)
    /\ UNCHANGED snakeVars
    /\ UNCHANGED <<foodPos, gameState, score, finalScore, storage, startScreen,
                   gameOverScreen, frameLive, frameStale, attempts>>

SpecLoad == LoadInit /\ [][LoadHighScore]_vars

----------------------------------------------------------------------------
(* Vocabulary of the properties *)

OppositePairs ==
    {<<UP, DOWN>>, <<DOWN, UP>>, <<LEFT, RIGHT>>, <<RIGHT, LEFT>>,
     <<FORWARD, BACKWARD>>, <<BACKWARD, FORWARD>>}

Emitted(c, e) == \E i \in DOMAIN c.emitted : c.emitted[i] = e

\* the transition is a discrete step of the snake
Stepped == steps' = steps + 1

----------------------------------------------------------------------------
(* C1: the pending direction is never the exact opposite of the current
   direction, after any interleaving of setDirection, steps and reset. *)
C1_NoPendingReversal == <<nextDirection, direction>> \notin OppositePairs

\* a reversal was requested while a turn was already pending
C1_Witness ==
    /\ call.op = "setDirection"
    /\ <<call.arg, direction>> \in OppositePairs
    /\ nextDirection # direction

(* C2: every pair of consecutive segments is exactly one grid step apart
   (so never in the same cell), for direction changes drawn from all six
   Direction values. *)
C2_SegmentSpacing ==
    \A i \in 1..(Len(segments) - 1) :
        Dist2(segments[i], segments[i + 1]) = Sq(segmentSize)

(* C4: each discrete step moves the head by exactly one grid step along the
   unit vector of the committed direction, for each of the six directions. *)
C4_HeadAdvances ==
    [][Stepped =>
        \A k \in 1..3 :
            segments'[1][k] = segments[1][k] + segmentSize * UnitVector(direction')[k]]_vars

(* C5 as stated: a snake of length >= 4 that traces a closed loop (a planar
   step of a properly spaced snake that brings the head back onto a cell of
   its own body) reports collision on the step that closes the loop. *)
C5_LoopCollides ==
    [][(Stepped /\ Len(segments) >= 4
          /\ direction' \in Planar
          /\ \A j \in 1..(Len(segments) - 1) :
                Dist2(segments[j], segments[j + 1]) = Sq(segmentSize)
          /\ \E i \in 1..Len(segments) : segments'[1] = segments[i])
        => Emitted(call', "collision")]_vars

(* C5 amended: a step that puts the head on a cell held before the step by a
   segment other than the tail, or by the tail when growth is pending, emits
   collision on that step. *)
C5_ClosingStepCollides ==
    [][(Stepped
          /\ \E i \in 1..(Len(segments) - (IF isGrowing THEN 0 ELSE 1)) :
                segments'[1] = segments[i])
        => Emitted(call', "collision")]_vars

\* a five-segment snake has just closed a planar loop onto its own tail
C5_Witness ==
    /\ call.arg = "move"
    /\ Emitted(call, "collision")
    /\ direction \in Planar
    /\ Len(segments) = 5
    /\ segments[1] = segments[5]

(* C9: setDirection(d) with d opposite to the current direction changes
   nothing and emits nothing; any other d becomes the pending direction. *)
C9_OppositeIsNoOp ==
    [][call'.op = "setDirection" =>
        /\ UNCHANGED <<segments, direction, isGrowing, moveTimer>>
        /\ call'.emitted = <<>>
        /\ IF <<call'.arg, direction>> \in OppositePairs
           THEN nextDirection' = nextDirection
           ELSE nextDirection' = call'.arg]_vars

\* a reversal was requested and ignored, with time accumulated and growth pending
C9_Witness ==
    /\ call.op = "setDirection"
    /\ <<call.arg, direction>> \in OppositePairs
    /\ nextDirection # call.arg
    /\ isGrowing
    /\ moveTimer > 0

(* C3: after Playing -> GameOver the score is frozen: while the game is over
   the score is still the one gameOver() saw and displayed. *)
C3_ScoreFrozen == gameState = GAME_OVER => score = finalScore

(* C6 as stated: an accepted candidate is farther than two grid steps from
   every occupied position passed to Food.spawn. *)
C6_TwoGridSteps ==
    (call.spawned /\ call.validPosition) =>
        \A i \in DOMAIN call.occupied :
            Dist2(call.occupied[i], foodPos) > Sq(2 * segmentSize)

(* C6 amended: an accepted candidate is at least one grid step (2 units) away
   from every occupied position passed to Food.spawn, so the food requested
   after a consumption is not in the cell of any snake segment. *)
C6_OneGridStep ==
    (call.spawned /\ call.validPosition) =>
        /\ \A i \in DOMAIN call.occupied :
              Dist2(call.occupied[i], foodPos) >= Sq(segmentSize)
        /\ call.occupied = segments
        /\ \A i \in DOMAIN segments :
              <<segments[i][1], segments[i][3]>> # <<foodPos[1], foodPos[3]>>

\* after a consumption the new food was accepted in a cell next to the snake
C6_Witness ==
    /\ call.spawned /\ call.validPosition
    /\ Emitted(call, "food_collected")
    /\ \E i \in DOMAIN segments : Dist2(segments[i], foodPos) <= Sq(2 * segmentSize)

\* the end-to-end scenario: initial snake heading Right, food in the next cell
C7_Scenario ==
    /\ gameState = PLAYING
    /\ segments = initialize(initialSnakeLength)
    /\ direction = RIGHT /\ nextDirection = RIGHT
    /\ ~isGrowing
    /\ foodPos = <<segmentSize, foodHeight, 0>>

(* C7 as stated: in the scenario, after one discrete step and its frame
   update the score has grown by the food's value and there are 4 segments. *)
C7_OneTickFour ==
    [][(C7_Scenario /\ Stepped) =>
        (score' = score + foodValue /\ Len(segments') = 4)]_vars

(* C7 amended: in the scenario, after one discrete step and its frame update
   the score has grown by the food's value, there are still 3 segments and
   growth is pending; the next discrete step makes them 4. *)
C7_OneTickPending ==
    [][/\ (C7_Scenario /\ Stepped) =>
            (score' = score + foodValue /\ Len(segments') = 3 /\ isGrowing')
       /\ (Stepped /\ isGrowing /\ Len(segments) = 3) => Len(segments') = 4]_vars

\* the scenario's first step has just been taken and the food ahead eaten
C7_Witness ==
    /\ steps = 1
    /\ segments[1] = <<segmentSize, 0, 0>>
    /\ Emitted(call, "food_collected")
    /\ score = foodValue
    /\ Len(segments) = 3
    /\ isGrowing

(* C8: on every food hit in a frame update the score grows by exactly the
   food's value (once), grow() is invoked, and a new food position is
   requested with the snake's current segment positions. *)
C8_FoodHit ==
    [][Emitted(call', "food_collected") =>
        /\ score' = (IF gameState \in {MENU, GAME_OVER} THEN 0 ELSE score) + foodValue
        /\ isGrowing'
        /\ call'.spawned
        /\ call'.occupied = segments']_vars

\* a second food has just been eaten
C8_Witness ==
    /\ Emitted(call, "food_collected")
    /\ score = 2 * foodValue
    /\ isGrowing

\* the transition is a start or restart of the game
Restarted == gameState \in {MENU, GAME_OVER} /\ gameState' = PLAYING

(* C10: within a game the current direction changes only in a discrete step
   (no direction input modifies it), the directions committed at two
   consecutive steps are never opposite, and the head never steps into the
   cell of the segment directly behind it. *)
C10_NoReversal ==
    [][~Restarted =>
        /\ direction' # direction => Stepped
        /\ Stepped => /\ <<direction', direction>> \notin OppositePairs
                      /\ segments'[1] # segments[2]]_vars

\* a turn has been committed and a further turn is buffered between steps
C10_Witness ==
    /\ gameState = PLAYING
    /\ steps >= 1
    /\ direction = FORWARD
    /\ nextDirection = LEFT
    /\ moveTimer > 0

(* C11: a discrete step taken with growth pending adds exactly one segment,
   placed where the tail was before the step, moves the others as usual and
   clears the flag; a step without pending growth keeps the count; grow()
   by itself changes no segment and only sets the flag. *)
C11_GrowthAtNextStep ==
    [][/\ (Stepped /\ isGrowing) =>
            /\ Len(segments') = Len(segments) + 1
            /\ segments'[Len(segments')] = segments[Len(segments)]
            /\ \A i \in 2..Len(segments) : segments'[i] = segments[i - 1]
            /\ ~isGrowing'
       /\ (Stepped /\ ~isGrowing) => Len(segments') = Len(segments)
       /\ call'.op = "grow" => (segments' = segments /\ isGrowing' /\ ~Stepped)]_vars

\* grow() was called on the initial snake and the next step, after a turn,
\* appended a fourth segment where the tail had been
C11_Witness ==
    /\ call.arg = "move"
    /\ Len(segments) = 4
    /\ direction = FORWARD
    /\ segments[1] = <<0, 0, -segmentSize>>
    /\ segments[4] = <<-2 * segmentSize, 0, 0>>
    /\ ~isGrowing

(* C19: Snake.update(delta) fires a discrete step exactly when the timer
   plus delta reaches the move interval, then fires one step only, however
   large delta is, and leaves the timer at zero; otherwise it adds delta to
   the timer and moves nothing; after every update the timer is below the
   move interval. *)
C19_OneStepPerUpdate ==
    [][call'.op = "update" =>
        /\ IF moveTimer + call'.deltaTime >= moveInterval
           THEN /\ steps' = steps + 1
                /\ segments' = moved(segments, nextDirection, isGrowing)
                /\ moveTimer' = 0
           ELSE /\ steps' = steps
                /\ segments' = segments
                /\ moveTimer' = moveTimer + call'.deltaTime
        /\ moveTimer' < moveInterval]_vars

\* an update with more than two move intervals of elapsed time has moved the
\* head one cell only
C19_Witness ==
    /\ call.op = "update"
    /\ call.deltaTime > 2 * moveInterval
    /\ steps = 1
    /\ segments[1] = <<segmentSize, 0, 0>>
    /\ moveTimer = 0

\* the head is outside the closed square of the boundary coordinates
OutsideBoundary(head) ==
    \/ head[1] > wallBoundary \/ head[1] < -wallBoundary
    \/ head[3] > wallBoundary \/ head[3] < -wallBoundary

(* C12: checkWallCollision is true exactly when the head's x or z is strictly
   beyond the boundary coordinate: a step that puts the head on the boundary
   coordinate emits no collision (unless the body is hit), and a step into
   the first grid cell beyond it does. *)
C12_WallStrict ==
    /\ checkWallCollision(segments) <=> OutsideBoundary(segments[1])
    /\ (call.arg = "move" /\ ~checkSelfCollision(segments)) =>
          (Emitted(call, "collision") <=> OutsideBoundary(segments[1]))
    /\ (call.arg = "move"
          /\ (Abs(segments[1][1]) = wallBoundary + segmentSize
               \/ Abs(segments[1][3]) = wallBoundary + segmentSize)) =>
          Emitted(call, "collision")

\* a step has put the head exactly on the boundary coordinate, with no collision
C12_Witness ==
    /\ call.arg = "move"
    /\ steps = 1
    /\ segments[1] = <<wallBoundary, 0, 0>>
    /\ ~Emitted(call, "collision")

(* C13: a discrete step emits collision exactly when, on the positions after
   the move, self-collision or wall-collision holds; nothing else emits it;
   and the step that emits it leaves the snake as any other step does: the
   segments moved, the pending direction committed, the growth flag cleared,
   nothing reset. *)
C13_CollisionIff ==
    [][/\ Stepped =>
            /\ Emitted(call', "collision") <=>
                  (checkSelfCollision(segments') \/ checkWallCollision(segments'))
            /\ segments' = moved(segments, nextDirection, isGrowing)
            /\ direction' = nextDirection
            /\ nextDirection' = nextDirection
            /\ ~isGrowing'
       /\ Emitted(call', "collision") => Stepped]_vars

\* the step that grew the snake to four segments took the head through the
\* wall: collision was emitted and the snake stays where the step put it
C13_Witness ==
    /\ call.arg = "move"
    /\ Emitted(call, "collision")
    /\ ~checkSelfCollision(segments)
    /\ segments[1] = <<wallBoundary + segmentSize, 0, 0>>
    /\ Len(segments) = 4
    /\ direction = RIGHT

\* the transitions of the game state that the handlers of SnakeGame make
Transitions ==
    {<<MENU, PLAYING>>, <<PLAYING, PAUSED>>, <<PAUSED, PLAYING>>,
     <<PLAYING, GAME_OVER>>, <<GAME_OVER, PLAYING>>}

(* C14 as stated: GameOver -> Menu is one of the transitions that can occur:
   a game that is over can be taken back to Menu. *)
C14_GameOverToMenu ==
    gameState = GAME_OVER => ENABLED (Next /\ gameState' = MENU)

(* C14 amended: the game state starts in Menu and every change of it is one
   of Menu -> Playing, Playing -> Paused, Paused -> Playing,
   Playing -> GameOver, GameOver -> Playing; in particular Menu is never
   entered again. *)
C14_FiveTransitions ==
    /\ gameState = MENU
    /\ [][gameState' # gameState => <<gameState, gameState'>> \in Transitions]_vars

\* a game ended, was restarted and is now paused
C14_Witness ==
    /\ gameState = PAUSED
    /\ finalScore > 0
    /\ ~gameOverScreen

(* C15: a collision is emitted only while Playing and the handler that
   emitted it ends in GameOver with the game-over screen shown; while the
   game is over no discrete step is taken, whatever frames and keys arrive,
   and the snake stays as it is until a restart. *)
C15_CollisionIsFatal ==
    [][/\ Emitted(call', "collision") =>
            (gameState = PLAYING /\ gameState' = GAME_OVER /\ gameOverScreen')
       /\ gameState = GAME_OVER =>
            /\ ~Stepped
            /\ gameState' \in {GAME_OVER, PLAYING}
            /\ gameState' = GAME_OVER => UNCHANGED <<segments, direction, nextDirection>>]_vars

\* the game is over and the frame that gameLoop had requested during the
\* colliding frame has run since
C15_Witness ==
    /\ gameState = GAME_OVER
    /\ finalScore > 0
    /\ ~frameLive
    /\ frameStale = 0
    /\ ~Emitted(call, "collision")

(* C16: while the game is Paused nothing changes segments, current and
   pending direction, growth flag, move timer, food position or score:
   not a frame, not a direction key, and not the resume that returns to
   Playing. *)
C16_PausedFrozen ==
    [][gameState = PAUSED =>
        UNCHANGED <<segments, direction, nextDirection, isGrowing, moveTimer,
                    foodPos, score>>]_vars

(* C17: the handler that takes the game from Menu or from GameOver to
   Playing leaves the score at 0, the snake at the configured initial
   length in its initial cells, heading Right with Right pending, without
   pending growth and with a zero move timer, and the food spawned against
   the cells of the reset snake. *)
C17_FullReset ==
    [][Restarted =>
        /\ score' = 0
        /\ segments' = initialize(initialSnakeLength)
        /\ direction' = RIGHT
        /\ nextDirection' = RIGHT
        /\ ~isGrowing'
        /\ moveTimer' = 0
        /\ call'.spawned
        /\ call'.occupied = initialize(initialSnakeLength)]_vars

\* the transition ends the session
GameEnded == gameState # GAME_OVER /\ gameState' = GAME_OVER

(* C18: at game over, with the session score being the score gameOver() read
   (the one it displays as final score): if it strictly exceeds the previous
   high score, the high score becomes that score and its decimal text is
   written to the store, from which it loads back as the same number;
   otherwise neither the high score nor the stored text changes and nothing
   is written. Outside game over neither changes. *)
C18_HighScoreAtGameOver ==
    [][/\ GameEnded =>
            IF finalScore' > highScore
            THEN /\ highScore' = finalScore'
                 /\ call'.saved
                 /\ storage' = Item(toString(finalScore'))
                 /\ loadHighScore(storage') = highScore'
            ELSE /\ highScore' = highScore
                 /\ storage' = storage
                 /\ ~call'.saved
       /\ ~GameEnded => (UNCHANGED <<highScore, storage>> /\ ~call'.saved)]_vars

\* a session has ended with a score equal to the stored high score, and
\* nothing was written
C18_Witness ==
    /\ gameState = GAME_OVER
    /\ Emitted(call, "collision")
    /\ finalScore = highScore
    /\ finalScore > 0
    /\ storage = Item(<<"2", "0">>)
    /\ ~call.saved

\* a session has ended with a score above the previous high score, which
\* was written to the store
C18_WitnessSaved ==
    /\ gameState = GAME_OVER
    /\ Emitted(call, "collision")
    /\ call.saved
    /\ highScore = 2 * foodValue
    /\ storage = Item(<<"2", "0">>)

(* C20: Food.spawn terminates with a position set. It never makes more than
   100 attempts and makes none after one was accepted; it ends either with
   the accepted candidate, a grid cell of the spawn area clear of every
   occupied position, or, after 100 rejected attempts (as when every
   candidate cell is occupied), with a position inside the smaller safety
   boundary; the result is one that the summary used by the game allows. *)
C20_SpawnTerminates ==
    /\ [](attempts <= maxAttempts)
    /\ <>(call.spawned)
    /\ [][call.validPosition => UNCHANGED <<attempts, foodPos>>]_vars
    /\ [](call.spawned =>
            /\ [position |-> foodPos, validPosition |-> call.validPosition]
                  \in spawnOver(call.occupied, randFloatSpreadInt(spawnBoundary * 2),
                               randFloatSpreadInt(fallbackSpread))
            /\ foodPos[2] = foodHeight
            /\ IF call.validPosition
               THEN /\ validPosition(call.occupied, foodPos)
                    /\ foodPos \in candidateCells
               ELSE /\ attempts = maxAttempts
                    /\ 2 * Abs(foodPos[1]) <= fallbackSpread
                    /\ 2 * Abs(foodPos[3]) <= fallbackSpread)

\* on the board with every candidate cell occupied, spawn has returned a
\* fallback position after all its attempts were rejected
C20_Witness ==
    /\ call.op = "spawn"
    /\ call.spawned
    /\ call.occupied = fullBoard
    /\ ~call.validPosition
    /\ attempts = maxAttempts

\* the grid cells a head can be in without wall collision
ArenaCells ==
    {cell \in {<<gx * segmentSize, 0, gz * segmentSize>> :
                 gx \in -(wallBoundary \div segmentSize)..(wallBoundary \div segmentSize),
                 gz \in -(wallBoundary \div segmentSize)..(wallBoundary \div segmentSize)} :
        ~checkWallCollision(<<cell>>)}

(* C21: every position Food.spawn ends with, accepted candidate or fallback
   placement, is within food-collision distance of the head for some grid
   cell inside the wall boundary, so discrete steps can bring the head to
   where the food is consumed. *)
C21_FoodReachable ==
    call.spawned =>
        \E cell \in ArenaCells : checkFoodCollision(<<cell>>, foodPos)

\* the fallback has placed the food at the corner of its range, midway
\* between four grid cells
C21_Witness ==
    /\ call.op = "spawn"
    /\ call.spawned
    /\ ~call.validPosition
    /\ foodPos = <<fallbackSpread \div 2, foodHeight, fallbackSpread \div 2>>

\* the text is a decimal integer: digits, with an optional minus sign
IsDecimal(text) ==
    /\ text # <<>>
    /\ \A i \in 2..Len(text) : IsDigit(text[i])
    /\ IsDigit(text[1]) \/ (text[1] = "-" /\ Len(text) > 1)

RECURSIVE digitsValue(_)
\* the number a run of digits denotes
digitsValue(text) ==
    IF text = <<>> THEN 0
    ELSE 10 * digitsValue(SubSeq(text, 1, Len(text) - 1)) + DigitValue(text[Len(text)])

\* the integer a decimal text denotes
DecimalValue(text) ==
    IF text[1] = "-" THEN -digitsValue(Tail(text)) ELSE digitsValue(text)

\* parsing fails: after white space and one sign the text does not go on
\* with a digit
ParseFails(text) ==
    \E k \in 1..(Len(text) + 1) :
        /\ \A i \in 1..(k - 1) : text[i] = " "
        /\ \/ k > Len(text)
           \/ text[k] \notin {" ", "-", "+"} /\ ~IsDigit(text[k])
           \/ /\ text[k] \in {"-", "+"}
              /\ (k = Len(text) \/ ~IsDigit(text[k + 1]))

(* C22: loading the persisted high score always ends with a number: zero when
   no value is stored, zero when the stored text fails to parse as a decimal
   integer (after white space and a sign there is no digit), and the integer
   itself when the stored text is a decimal integer. *)
C22_LoadNeverFails ==
    call.op = "loadHighScore" =>
        /\ highScore \in Int
        /\ ~storage.present => highScore = 0
        /\ (storage.present /\ ParseFails(storage.text)) => highScore = 0
        /\ (storage.present /\ IsDecimal(storage.text)) =>
              highScore = DecimalValue(storage.text)

\* a stored text that starts with a letter was loaded as zero
C22_Witness ==
    /\ call.op = "loadHighScore"
    /\ storage = Item(<<"a", "1", "0">>)
    /\ highScore = 0

\* the cell of the last segment
TailCell(segs) == segs[Len(segs)]

\* no other segment shares the cell of the last segment
TailCellFree(segs) == \A i \in 1..(Len(segs) - 1) : segs[i] # TailCell(segs)

(* C23: a discrete step commits the pending direction, moves the head one
   cell along it, lets every body segment take the place of the one before
   it, then appends the former tail cell if growth was pending, and only then
   evaluates collisions; so a head that steps into the cell the tail held
   before the move (the tail alone being in that cell) reports a collision
   exactly when growth was pending. *)
C23_StepOrder ==
    [][Stepped =>
        /\ direction' = nextDirection
        /\ segments'[1] = newHeadPosition(segments[1], direction')
        /\ \A i \in 2..Len(segments) : segments'[i] = segments[i - 1]
        /\ Len(segments') = Len(segments) + (IF isGrowing THEN 1 ELSE 0)
        /\ isGrowing => TailCell(segments') = TailCell(segments)
        /\ (segments'[1] = TailCell(segments) /\ TailCellFree(segments)) =>
              (Emitted(call', "collision") <=> isGrowing)]_vars

\* the head has stepped into the cell the tail had just left, without growth
\* and without a collision
C23_Witness ==
    /\ call.op = "update" /\ call.arg = "move"
    /\ Len(segments) = initialSnakeLength + 1
    /\ segments[1] = <<0, 0, 0>>
    /\ segments[2] = <<0, 0, segmentSize>>
    /\ segments[4] = <<segmentSize, 0, 0>>
    /\ ~Emitted(call, "collision")

\* the head has stepped into the cell the tail had just left, with growth
\* pending: the appended segment lies under the head
C23_WitnessGrown ==
    /\ call.op = "update" /\ call.arg = "move"
    /\ Len(segments) = initialSnakeLength + 2
    /\ segments[1] = segments[Len(segments)]
    /\ \A i \in 2..(Len(segments) - 1) : segments[i] # segments[1]
    /\ Emitted(call, "collision")

\* game-loop callbacks that the browser has been asked for and has not run
Outstanding == (IF frameLive THEN 1 ELSE 0) + frameStale

(* C24: at any time at most one game-loop callback is outstanding, under
   every interleaving of start, pause, resume, game over and restart. *)
C24_OneCallback == Outstanding <= 1

(* C25: throughout a session the score equals the food value times the
   number of segments gained since the start, a pending growth counted as one
   segment. *)
C25_ScoreIsGrowth ==
    gameState # MENU =>
        score = foodValue * (Len(segments) - initialSnakeLength
                             + (IF isGrowing THEN 1 ELSE 0))

(* C26: after every completed frame update while playing, the head is not
   within food-collision distance of the current food. *)
C26_FoodOutOfReach ==
    gameState = PLAYING => ~checkFoodCollision(segments, foodPos)

(* C27: whenever the game is over, the high score is at least the score of
   the session that ended. *)
C27_HighScoreCoversScore == gameState = GAME_OVER => highScore >= score

(* C28: a snake of at most four segments without pending growth never
   reports self-collision after a step in one of the four planar directions,
   whatever accepted direction changes came before; self-collision needs five
   segments, or four with growth pending. *)
C28_ShortSnakeSafe ==
    [][(/\ Stepped
        /\ direction' \in Planar
        /\ Len(segments) <= initialSnakeLength + 1
        /\ ~isGrowing)
       => ~checkSelfCollision(segments')]_vars

\* the head and the food are in the same grid cell: same x and same z
SameCell(head, foodPosition) ==
    head[1] = foodPosition[1] /\ head[3] = foodPosition[3]

(* C29: for food on the grid (an accepted candidate of Food.spawn, one unit
   above the plane of the snake) the food-collision test is true exactly for
   a head in the food's grid cell; a head in any other cell of the arena, the
   adjacent ones included, does not consume it. *)
C29_SameCellOnly ==
    (call.spawned /\ call.validPosition) =>
        \A cell \in ArenaCells :
            checkFoodCollision(<<cell>>, foodPos) <=> SameCell(cell, foodPos)

\* food was accepted in the cell right ahead of the head of the reset snake,
\* and the head does not reach it from there
C29_Witness ==
    /\ call.spawned /\ call.validPosition
    /\ call.occupied = initialize(initialSnakeLength)
    /\ foodPos = <<segmentSize, foodHeight, 0>>
    /\ ~checkFoodCollision(call.occupied, foodPos)

\* the position is on the grid and in the plane of the arena
OnGrid(position) ==
    /\ position[2] = 0
    /\ position[1] % segmentSize = 0
    /\ position[3] % segmentSize = 0

(* C30: after any sequence of steps, growth and resets the snake has at least
   one segment, and every segment is in the plane y = 0 with x and z whole
   multiples of the grid step. *)
C30_OnGrid ==
    /\ Len(segments) >= 1
    /\ \A i \in DOMAIN segments : OnGrid(segments[i])

\* a snake grown to five segments that has turned twice and stepped with UP
\* committed
C30_Witness ==
    /\ Len(segments) = initialSnakeLength + 2
    /\ direction = UP
    /\ call.op = "update" /\ call.arg = "move"
    /\ segments[1][1] # 0 /\ segments[1][3] # 0

====
